---- MODULE Spec2Model ----
(***************************************************************************)
(* A model of pycarmd (src/pycarmd/api.py): the module-level credential    *)
(* defaults read from the environment, CarmdAuth, CarmdApi.__init__,       *)
(* CarmdApi.get and the per-endpoint operations built on it.               *)
(*                                                                         *)
(* Python values are tagged records [t, s, n]: t is the type ("none",      *)
(* "str", "int"), s the characters of a str, n the value of an int.        *)
(* Strings are sequences of one-character strings so that str() of an int  *)
(* is computed digit by digit.                                             *)
(***************************************************************************)
EXTENDS Integers, Sequences, FiniteSets, TLC

\* ---------------------------------------------------------------- bounds

\* Integer arguments range over MinInt .. MaxInt (two digits and a sign).
MaxInt == 11
\* How many times one request may be handed to CarmdAuth.__call__.
MaxApply == 3

\* ---------------------------------------------------------- Python values

PyNone == [t |-> "none", s |-> << >>, n |-> 0]
PyStr(chars) == [t |-> "str", s |-> chars, n |-> 0]
PyInt(i) == [t |-> "int", s |-> << >>, n |-> i]

IsNone(v) == v.t = "none"
IsStr(v) == v.t = "str"
IsInt(v) == v.t = "int"

\* bool(v): None, "" and 0 are false.
Truthy(v) ==
    CASE v.t = "none" -> FALSE
      [] v.t = "str" -> v.s # << >>
      [] v.t = "int" -> v.n # 0

Digit(d) ==
    CASE d = 0 -> "0" [] d = 1 -> "1" [] d = 2 -> "2" [] d = 3 -> "3"
      [] d = 4 -> "4" [] d = 5 -> "5" [] d = 6 -> "6" [] d = 7 -> "7"
      [] d = 8 -> "8" [] d = 9 -> "9"

RECURSIVE NatToStr(_)
NatToStr(k) ==
    IF k < 10 THEN << Digit(k) >> ELSE NatToStr(k \div 10) \o << Digit(k % 10) >>

IntToStr(i) == IF i < 0 THEN << "-" >> \o NatToStr(0 - i) ELSE NatToStr(i)

\* ------------------------------------------------------------- state

VARIABLES
    env,                 \* os.environ restricted to CARMD_KEY and CARMD_SECRET
    imported,            \* whether pycarmd.api has been imported
    envAtImport,         \* history: env as it was when the module was imported
    CMD_DEFAULT_KEY,     \* module global, api.py line 9
    CMD_DEFAULT_SECRET,  \* module global, api.py line 10
    client,              \* << >>, or << the CarmdApi object >>
    ctor,                \* the latest CarmdApi(key, secret) call and its outcome
    call,                \* per thread: the operation in progress and its outcome
    r,                   \* a prepared request handed to CarmdAuth.__call__
    auth,                \* the CarmdAuth object applied to r
    applied              \* how many times auth was applied to r

vars == << env, imported, envAtImport, CMD_DEFAULT_KEY, CMD_DEFAULT_SECRET,
           client, ctor, call, r, auth, applied >>

EnvNames == {"CARMD_KEY", "CARMD_SECRET"}

\* Values an environment variable may hold: unset (None), empty, or set.
EnvStrings == {<< >>, << "e" >>, << "f" >>}
EnvValues == {PyNone} \cup {PyStr(c) : c \in EnvStrings}

\* Values a caller may pass for key / secret: omitted (None) or a string.
ArgStrings == {<< >>, << "a" >>}
ArgValues == {PyNone} \cup {PyStr(c) : c \in ArgStrings}

Threads == {"t1", "t2"}

NoCtor == [called |-> FALSE, key |-> PyNone, secret |-> PyNone,
           env |-> [x \in EnvNames |-> PyNone], outcome |-> "none",
           obj |-> << >>]

\* ------------------------------------------- module import (lines 8-10)

CMD_BASE_URL == "http://api2.carmd.com/v2.0/"

\* os.environ.get(name, None)
EnvironGet(name) == env[name]

\* The process (or its parent) sets or unsets CARMD_KEY / CARMD_SECRET.
SetEnv(name, v) ==
    /\ env[name] # v
    /\ env' = [env EXCEPT ![name] = v]
    /\ UNCHANGED << imported, envAtImport, CMD_DEFAULT_KEY, CMD_DEFAULT_SECRET,
                    client, ctor, call, r, auth, applied >>

\* import pycarmd.api: the module body runs once and reads the environment.
Import ==
    /\ ~imported
    /\ imported' = TRUE
    /\ envAtImport' = env
    /\ CMD_DEFAULT_KEY' = EnvironGet("CARMD_KEY")
    /\ CMD_DEFAULT_SECRET' = EnvironGet("CARMD_SECRET")
    /\ UNCHANGED << env, client, ctor, call, r, auth, applied >>

\* ------------------------------------------------ CarmdAuth (lines 13-24)

\* CarmdAuth.__init__(key, secret)
CarmdAuth(key, secret) == [cls |-> "CarmdAuth", key |-> key, secret |-> secret]

\* dict[k] = v
Put(d, k, v) == [x \in (DOMAIN d) \cup {k} |-> IF x = k THEN v ELSE d[x]]

CarmdAuth_call_Replaces(a, req) ==
    [req EXCEPT !.headers = Put(Put(<< >>, "authorization", a.key),
                                "partner-token", a.secret)]

\* CarmdAuth.__call__(r): sets the two headers and returns r.
CarmdAuth_call(a, req) ==
    [req EXCEPT !.headers = Put(Put(req.headers, "authorization", a.key),
                                "partner-token", a.secret)]

\* ------------------------------------------ CarmdApi.__init__ (38-60)

ResolveKey_EnvWins(key) == IF IsNone(CMD_DEFAULT_KEY) THEN key ELSE CMD_DEFAULT_KEY

\* lines 49-50
ResolveKey(key) == IF IsNone(key) THEN CMD_DEFAULT_KEY ELSE key

ResolveSecret_ReadsKey(secret) == IF IsNone(secret) THEN CMD_DEFAULT_KEY ELSE secret

\* lines 51-52
ResolveSecret(secret) == IF IsNone(secret) THEN CMD_DEFAULT_SECRET ELSE secret

CredentialsGiven_Any(key, secret) == Truthy(key) \/ Truthy(secret)

\* line 53: all((key, secret))
CredentialsGiven(key, secret) == Truthy(key) /\ Truthy(secret)

\* lines 58-60: the attributes of the new object
NewClient(key, secret) ==
    [_key |-> key, _secret |-> secret, _auth |-> CarmdAuth(key, secret)]

\* CarmdApi(key, secret): raises KeyError, or yields the object.
Construct(key, secret) ==
    /\ imported
    /\ LET k == ResolveKey(key)
           s == ResolveSecret(secret)
       IN IF ~CredentialsGiven(k, s)
          THEN /\ ctor' = [called |-> TRUE, key |-> key, secret |-> secret,
                           env |-> env, outcome |-> "KeyError", obj |-> << >>]
               /\ client' = client
          ELSE /\ ctor' = [called |-> TRUE, key |-> key, secret |-> secret,
                           env |-> env, outcome |-> "ok",
                           obj |-> << NewClient(k, s) >>]
               /\ client' = << NewClient(k, s) >>
    /\ UNCHANGED << env, imported, envAtImport, CMD_DEFAULT_KEY,
                    CMD_DEFAULT_SECRET, call, r, auth, applied >>


\* ------------------------------------------------- requests and the wire

\* params=None, or a dict of query parameters
NoParams == [none |-> TRUE, d |-> << >>]
Params(d) == [none |-> FALSE, d |-> d]

\* **kwargs: each option is absent (<< >>) or present (<< value >>).
OptNames == {"timeout", "headers", "auth", "url"}
NoKwargs == [timeout |-> << >>, headers |-> << >>, auth |-> << >>, url |-> << >>]

\* An auth object of another class that a caller may pass as auth=...
HTTPBasicAuth(user, pass) == [cls |-> "HTTPBasicAuth", key |-> user, secret |-> pass]

\* The headers the HTTP layer puts on every request before the caller's.
DefaultHeaders == "accept" :> PyStr(<< "*", "/", "*" >>)

Merge(base, over) ==
    [x \in (DOMAIN base) \cup (DOMAIN over) |->
        IF x \in DOMAIN over THEN over[x] ELSE base[x]]

\* The HTTP layer calls the auth object on the prepared request.
ApplyAuth(a, req) ==
    IF a.cls = "CarmdAuth"
    THEN CarmdAuth_call(a, req)
    ELSE [req EXCEPT !.headers =
             Put(req.headers, "authorization",
                 PyStr(<< "B" >> \o a.key.s \o << ":" >> \o a.secret.s))]

\* requests.get(url, params=params, **kwargs): the request put on the wire.
Wire(d) ==
    LET prepared == [method |-> "GET", url |-> d.url, params |-> d.params,
                     headers |-> IF d.kwargs.headers = << >>
                                 THEN DefaultHeaders
                                 ELSE Merge(DefaultHeaders, d.kwargs.headers[1])]
    IN IF d.kwargs.auth = << >> THEN prepared
       ELSE ApplyAuth(d.kwargs.auth[1], prepared)

Responses ==
    { [status |-> 200, body |-> "{\"data\": []}"],
      [status |-> 404, body |-> "not json"] }

\* ------------------------------------------------ CarmdApi.get (62-65)

CarmdApi_get_KeepsCallerAuth(self, service, params, kwargs) ==
    [url |-> CMD_BASE_URL \o service, params |-> params,
     kwargs |-> IF kwargs.auth = << >>
                THEN [kwargs EXCEPT !.auth = << self._auth >>]
                ELSE kwargs]

CarmdApi_get_DropsOptions(self, service, params, kwargs) ==
    [url |-> CMD_BASE_URL \o service, params |-> params,
     kwargs |-> [NoKwargs EXCEPT !.auth = << self._auth >>]]

\* What get hands to requests.get: url, params and kwargs with auth set.
CarmdApi_get(self, service, params, kwargs) ==
    [url |-> CMD_BASE_URL \o service, params |-> params,
     kwargs |-> [kwargs EXCEPT !.auth = << self._auth >>]]

GetOutcome_RaiseForStatus(resp) ==
    IF resp.status >= 400
    THEN [exc |-> "HTTPError", value |-> << >>]
    ELSE [exc |-> "", value |-> << resp >>]

\* line 65: get returns what requests.get returned.
GetOutcome(resp) == [exc |-> "", value |-> << resp >>]

\* ------------------------------------------- per-endpoint operations

\* line 83
get_decode(self, vin) ==
    CarmdApi_get(self, "decode", Params("vin" :> vin), NoKwargs)

\* line 94
get_safety_recall(self, vehicle_id) ==
    CarmdApi_get(self, "articles/safetyrecall", Params("vehicleID" :> vehicle_id),
                 NoKwargs)

predicted_params_Truthy(vehicle_id, tag, fleet_id) ==
    IF Truthy(vehicle_id) THEN [raises |-> "", params |-> Params("vehicleID" :> vehicle_id)]
    ELSE IF Truthy(tag) THEN [raises |-> "", params |-> Params("tag" :> tag)]
    ELSE IF Truthy(fleet_id) THEN [raises |-> "", params |-> Params("fleetID" :> fleet_id)]
    ELSE [raises |-> "TypeError", params |-> NoParams]

predicted_params_NoRaise(vehicle_id, tag, fleet_id) ==
    IF ~IsNone(vehicle_id) THEN [raises |-> "", params |-> Params("vehicleID" :> vehicle_id)]
    ELSE IF ~IsNone(tag) THEN [raises |-> "", params |-> Params("tag" :> tag)]
    ELSE IF ~IsNone(fleet_id) THEN [raises |-> "", params |-> Params("fleetID" :> fleet_id)]
    ELSE [raises |-> "", params |-> NoParams]

\* lines 109-117: the parameter chosen, or the TypeError
predicted_params(vehicle_id, tag, fleet_id) ==
    IF ~IsNone(vehicle_id) THEN [raises |-> "", params |-> Params("vehicleID" :> vehicle_id)]
    ELSE IF ~IsNone(tag) THEN [raises |-> "", params |-> Params("tag" :> tag)]
    ELSE IF ~IsNone(fleet_id) THEN [raises |-> "", params |-> Params("fleetID" :> fleet_id)]
    ELSE [raises |-> "TypeError", params |-> NoParams]

\* line 118
get_predicted_repair(self, params) ==
    CarmdApi_get(self, "report/predicted", params, NoKwargs)

\* line 148
get_warranty(self, vehicle_id) ==
    CarmdApi_get(self, "articles/warranty", Params("vehicleID" :> vehicle_id),
                 NoKwargs)

str_Identity(v) == v

\* str(v) for the argument types the operations take
str(v) ==
    CASE v.t = "str" -> v
      [] v.t = "int" -> PyStr(IntToStr(v.n))
      [] v.t = "none" -> PyStr(<< "N", "o", "n", "e" >>)

\* line 162
get_maintenance(self, vin, mileage) ==
    CarmdApi_get(self, "maint/next",
                 Params(("vin" :> vin) @@ ("mileage" :> str(mileage))), NoKwargs)

\* line 174
get_years(self, make) ==
    CarmdApi_get(self, "decode", Params("make" :> make), NoKwargs)

\* line 184: params defaults to None
get_makes(self) == CarmdApi_get(self, "decode", NoParams, NoKwargs)

\* line 198
get_models(self, year, make) ==
    CarmdApi_get(self, "decode",
                 Params(("year" :> str(year)) @@ ("make" :> make)), NoKwargs)


\* ------------------------------------------------------------ calls

Idle ==
    [pc |-> "idle", op |-> "", args |-> << >>, service |-> "",
     params |-> NoParams, kwargs |-> NoKwargs, self |-> << >>,
     got |-> << >>, sent |-> << >>, resp |-> << >>, result |-> << >>,
     exc |-> ""]

\* A caller may start an operation once the client exists and the thread's
\* previous call has ended.
Ready(t) == client # << >> /\ call[t].pc # "http"

OtherVars ==
    << env, imported, envAtImport, CMD_DEFAULT_KEY, CMD_DEFAULT_SECRET,
       client, ctor, r, auth, applied >>

\* requests.get(url, params=params, **kwargs) up to the request being sent:
\* a url among kwargs is a second value for the first parameter (TypeError).
RequestsGet(d) ==
    IF d.kwargs.url # << >>
    THEN [exc |-> "TypeError", sent |-> << >>]
    ELSE [exc |-> "", sent |-> << Wire(d) >>]

\* The thread enters requests.get with descriptor d and blocks on the network.
Dispatch(t, started, d) ==
    LET o == RequestsGet(d)
    IN call' = [call EXCEPT ![t] =
                  IF o.exc # ""
                  THEN [started EXCEPT !.pc = "raised", !.got = << d >>,
                                       !.exc = o.exc]
                  ELSE [started EXCEPT !.pc = "http", !.got = << d >>,
                                       !.sent = o.sent]]

Started(op, args) ==
    [Idle EXCEPT !.op = op, !.args = args, !.self = client]

\* api.get(service, params, **kwargs)
Call_get(t, service, params, kwargs) ==
    /\ Ready(t)
    /\ Dispatch(t, [Started("get", << >>) EXCEPT !.service = service,
                        !.params = params, !.kwargs = kwargs],
                CarmdApi_get(client[1], service, params, kwargs))
    /\ UNCHANGED OtherVars

Call_get_decode(t, vin) ==
    /\ Ready(t)
    /\ Dispatch(t, Started("get_decode", << vin >>), get_decode(client[1], vin))
    /\ UNCHANGED OtherVars

Call_get_safety_recall(t, vehicle_id) ==
    /\ Ready(t)
    /\ Dispatch(t, Started("get_safety_recall", << vehicle_id >>),
                get_safety_recall(client[1], vehicle_id))
    /\ UNCHANGED OtherVars

Call_get_predicted_repair(t, vehicle_id, tag, fleet_id) ==
    /\ Ready(t)
    /\ LET p == predicted_params(vehicle_id, tag, fleet_id)
           started == Started("get_predicted_repair", << vehicle_id, tag, fleet_id >>)
       IN IF p.raises # ""
          THEN call' = [call EXCEPT ![t] =
                           [started EXCEPT !.pc = "raised", !.exc = p.raises]]
          ELSE Dispatch(t, started, get_predicted_repair(client[1], p.params))
    /\ UNCHANGED OtherVars

Call_get_warranty(t, vehicle_id) ==
    /\ Ready(t)
    /\ Dispatch(t, Started("get_warranty", << vehicle_id >>),
                get_warranty(client[1], vehicle_id))
    /\ UNCHANGED OtherVars

Call_get_maintenance(t, vin, mileage) ==
    /\ Ready(t)
    /\ Dispatch(t, Started("get_maintenance", << vin, mileage >>),
                get_maintenance(client[1], vin, mileage))
    /\ UNCHANGED OtherVars

Call_get_years(t, make) ==
    /\ Ready(t)
    /\ Dispatch(t, Started("get_years", << make >>), get_years(client[1], make))
    /\ UNCHANGED OtherVars

Call_get_makes(t) ==
    /\ Ready(t)
    /\ Dispatch(t, Started("get_makes", << >>), get_makes(client[1]))
    /\ UNCHANGED OtherVars

Call_get_models(t, year, make) ==
    /\ Ready(t)
    /\ Dispatch(t, Started("get_models", << year, make >>),
                get_models(client[1], year, make))
    /\ UNCHANGED OtherVars

\* The HTTP layer produces a response; get and the operation return it.
HttpRespond(t, resp) ==
    /\ call[t].pc = "http"
    /\ LET o == GetOutcome(resp)
       IN call' = [call EXCEPT ![t] =
                     [@ EXCEPT !.pc = IF o.exc = "" THEN "returned" ELSE "raised",
                               !.resp = << resp >>,
                               !.result = o.value,
                               !.exc = o.exc]]
    /\ UNCHANGED OtherVars

\* The HTTP layer raises (connection error, timeout); nothing catches it.
HttpRaise(t) ==
    /\ call[t].pc = "http"
    /\ call' = [call EXCEPT ![t] = [@ EXCEPT !.pc = "raised",
                                            !.exc = "ConnectionError"]]
    /\ UNCHANGED OtherVars

\* ------------------------------------------------------ input domains

Vin == PyStr(<< "5", "X" >>)
Make == PyStr(<< "T" >>)
VehicleIds == {PyInt(0), PyStr(<< "7" >>)}
Tags == {PyStr(<< >>), PyStr(<< "g" >>)}
FleetIds == {PyStr(<< "f" >>)}
ParamChoices == {NoParams, Params("vin" :> Vin)}

\* Integers and strings passed as year / mileage.
IntArgs == {PyInt(i) : i \in -1 .. MaxInt}
NumericArgs == IntArgs \cup {PyStr(IntToStr(i)) : i \in {-1, 0, MaxInt}}
                       \cup {PyStr(<< "0", "7" >>)}

CallerHeaders ==
    ("authorization" :> PyStr(<< "x" >>)) @@ ("user-agent" :> PyStr(<< "u" >>))
CallerAuth == HTTPBasicAuth(PyStr(<< "u" >>), PyStr(<< "p" >>))

\* Every combination of the four options, each absent or present.
KwargChoices ==
    [timeout : {<< >>, << PyInt(5) >>},
     headers : {<< >>, << CallerHeaders >>},
     auth : {<< >>, << CallerAuth >>},
     url : {<< >>, << PyStr(<< "h" >>) >>}]

\* No option, or exactly one of them.
FewKwargChoices ==
    {k \in KwargChoices :
        Cardinality({o \in OptNames : k[o] # << >>}) <= 1}

\* ---------------------------------------------------- specifications

\* The module has been imported with the environment as it then was.
Init ==
    /\ env \in {[x \in EnvNames |-> PyNone],
                ("CARMD_KEY" :> PyStr(<< "e" >>)) @@ ("CARMD_SECRET" :> PyStr(<< "f" >>))}
    /\ imported = TRUE
    /\ envAtImport = env
    /\ CMD_DEFAULT_KEY = env["CARMD_KEY"]
    /\ CMD_DEFAULT_SECRET = env["CARMD_SECRET"]
    /\ client = << >>
    /\ ctor = NoCtor
    /\ call = [t \in Threads |-> Idle]
    /\ r = [method |-> "GET", url |-> "", params |-> NoParams, headers |-> << >>]
    /\ auth = CarmdAuth(PyNone, PyNone)
    /\ applied = 0

\* One client, built once, used from both threads through every operation.
Next ==
    \/ \E key \in ArgValues, secret \in ArgValues :
          client = << >> /\ Construct(key, secret)
    \/ \E t \in Threads, kwargs \in FewKwargChoices :
          Call_get(t, "decode", Params("vin" :> Vin), kwargs)
    \/ \E t \in Threads : Call_get_decode(t, Vin)
    \/ \E t \in Threads : Call_get_safety_recall(t, PyStr(<< "7" >>))
    \/ \E t \in Threads, v \in {PyNone, PyInt(0)}, f \in {PyNone} \cup FleetIds :
          Call_get_predicted_repair(t, v, PyNone, f)
    \/ \E t \in Threads : Call_get_warranty(t, PyStr(<< "7" >>))
    \/ \E t \in Threads : Call_get_maintenance(t, Vin, PyInt(MaxInt))
    \/ \E t \in Threads : Call_get_years(t, Make)
    \/ \E t \in Threads : Call_get_makes(t)
    \/ \E t \in Threads : Call_get_models(t, PyInt(MaxInt), Make)
    \/ \E t \in Threads, resp \in Responses : HttpRespond(t, resp)
    \/ \E t \in Threads : HttpRaise(t)

Spec == Init /\ [][Next]_vars

\* The environment changes before and after the import; clients are built
\* at any time after it.
InitEnv ==
    /\ env \in [EnvNames -> EnvValues]
    /\ imported = FALSE
    /\ envAtImport = [x \in EnvNames |-> PyNone]
    /\ CMD_DEFAULT_KEY = PyNone
    /\ CMD_DEFAULT_SECRET = PyNone
    /\ client = << >>
    /\ ctor = NoCtor
    /\ call = [t \in Threads |-> Idle]
    /\ r = [method |-> "GET", url |-> "", params |-> NoParams, headers |-> << >>]
    /\ auth = CarmdAuth(PyNone, PyNone)
    /\ applied = 0

NextEnv ==
    \/ \E name \in EnvNames, v \in EnvValues : SetEnv(name, v)
    \/ Import
    \/ \E key \in ArgValues, secret \in ArgValues : Construct(key, secret)

SpecEnv == InitEnv /\ [][NextEnv]_vars

\* get_predicted_repair with every combination of its three arguments.
NextPredicted ==
    \/ client = << >> /\ Construct(PyStr(<< "a" >>), PyNone)
    \/ \E t \in Threads, v \in {PyNone} \cup VehicleIds, g \in {PyNone} \cup Tags,
          f \in {PyNone} \cup FleetIds : Call_get_predicted_repair(t, v, g, f)
    \/ \E t \in Threads : Call_get_decode(t, Vin)
    \/ \E t \in Threads, resp \in Responses : HttpRespond(t, resp)
    \/ \E t \in Threads : HttpRaise(t)

SpecPredicted == Init /\ [][NextPredicted]_vars

\* get_models and get_maintenance over integer and string arguments.
NextNumeric ==
    \/ client = << >> /\ Construct(PyNone, PyStr(<< "a" >>))
    \/ \E t \in Threads, y \in NumericArgs : Call_get_models(t, y, Make)
    \/ \E t \in Threads, m \in NumericArgs : Call_get_maintenance(t, Vin, m)
    \/ \E t \in Threads, resp \in Responses : HttpRespond(t, resp)

SpecNumeric == Init /\ [][NextNumeric]_vars

\* get with every combination of caller options.
NextGet ==
    \/ \E key \in ArgValues, secret \in ArgValues :
          client = << >> /\ Construct(key, secret)
    \/ \E service \in {"decode", "maint/next"}, params \in ParamChoices,
          kwargs \in KwargChoices : Call_get("t1", service, params, kwargs)
    \/ \E resp \in Responses : HttpRespond("t1", resp)
    \/ HttpRaise("t1")

SpecGet == Init /\ [][NextGet]_vars


\* CarmdAuth objects applied, possibly repeatedly, to prepared requests.
AuthCredentials == {PyStr(<< "a" >>), PyStr(<< "e" >>)}

PreparedRequests ==
    { [method |-> "GET", url |-> CMD_BASE_URL \o service, params |-> p,
       headers |-> h] :
        service \in {"decode", "maint/next"},
        p \in ParamChoices,
        h \in { DefaultHeaders,
                Merge(DefaultHeaders, CallerHeaders),
                Merge(DefaultHeaders, "authorization" :> PyStr(<< "a" >>)),
                Merge(DefaultHeaders, ("partner-token" :> PyStr(<< "x" >>))
                                      @@ ("authorization" :> PyStr(<< "e" >>))) } }

InitAuth ==
    /\ env = [x \in EnvNames |-> PyNone]
    /\ imported = TRUE
    /\ envAtImport = env
    /\ CMD_DEFAULT_KEY = PyNone
    /\ CMD_DEFAULT_SECRET = PyNone
    /\ client = << >>
    /\ ctor = NoCtor
    /\ call = [t \in Threads |-> Idle]
    /\ r \in PreparedRequests
    /\ auth \in {CarmdAuth(k, x) : k \in AuthCredentials, x \in AuthCredentials}
    /\ applied = 0

\* The HTTP layer calls auth(r); r is mutated in place and returned.
AuthApply ==
    /\ applied < MaxApply
    /\ r' = CarmdAuth_call(auth, r)
    /\ applied' = applied + 1
    /\ UNCHANGED << env, imported, envAtImport, CMD_DEFAULT_KEY,
                    CMD_DEFAULT_SECRET, client, ctor, call, auth >>

NextAuth == AuthApply

SpecAuth == InitAuth /\ [][NextAuth]_vars

\* ------------------------------------------------------------ claims

NonEmptyStr(v) == IsStr(v) /\ v.s # << >>

\* C1 as stated: constructing with both key and secret supplied as strings
\* (any strings) succeeds and yields a client, whatever the environment.
C1_AnyStrings ==
    (ctor.called /\ IsStr(ctor.key) /\ IsStr(ctor.secret))
        => (ctor.outcome = "ok" /\ ctor.obj # << >>)

\* C1 amended: constructing with both key and secret supplied as non-empty
\* strings succeeds and yields a client, whatever the environment holds now
\* or held at import.
C1_NonEmptyStrings ==
    (ctor.called /\ NonEmptyStr(ctor.key) /\ NonEmptyStr(ctor.secret))
        => (ctor.outcome = "ok" /\ ctor.obj # << >>)

C1_Witness ==
    /\ ctor.called /\ NonEmptyStr(ctor.key) /\ NonEmptyStr(ctor.secret)
    /\ ctor.outcome = "ok"
    /\ IsStr(ctor.env["CARMD_KEY"]) /\ ctor.env["CARMD_KEY"] # ctor.key
    /\ IsNone(ctor.env["CARMD_SECRET"])
    /\ envAtImport # ctor.env

\* The credential was omitted and the variable is unset in environment e.
NoFallback(e) ==
    \/ IsNone(ctor.key) /\ IsNone(e["CARMD_KEY"])
    \/ IsNone(ctor.secret) /\ IsNone(e["CARMD_SECRET"])

\* C2 as stated: a construction with key or secret omitted while the
\* corresponding environment variable is unset (when the constructor runs)
\* fails with KeyError, produces no client and issues no request.
C2_UnsetAtConstruction ==
    (ctor.called /\ NoFallback(ctor.env))
        => /\ ctor.outcome = "KeyError"
           /\ ctor.obj = << >>
           /\ \A t \in Threads : call[t].sent = << >>

\* C2 amended: a construction with key or secret omitted while the
\* corresponding environment variable was unset when the module was imported
\* fails with KeyError, produces no client and issues no request.
C2_UnsetAtImport ==
    (ctor.called /\ NoFallback(envAtImport))
        => /\ ctor.outcome = "KeyError"
           /\ ctor.obj = << >>
           /\ \A t \in Threads : call[t].sent = << >>

C2_Witness ==
    /\ ctor.called /\ IsNone(ctor.key) /\ NonEmptyStr(ctor.secret)
    /\ IsNone(envAtImport["CARMD_KEY"])
    /\ NonEmptyStr(ctor.env["CARMD_KEY"])
    /\ ctor.outcome = "KeyError"

\* The credentials the claim expects of a successful construction, with
\* fallback values read from environment e.
Expected(e) ==
    [key |-> IF IsNone(ctor.key) THEN e["CARMD_KEY"] ELSE ctor.key,
     secret |-> IF IsNone(ctor.secret) THEN e["CARMD_SECRET"] ELSE ctor.secret]

Resolved(obj) == [key |-> obj._key, secret |-> obj._secret]

\* C3 as stated: the resolved credentials of a constructed client are, per
\* credential, the argument if supplied and otherwise the value the
\* environment variable holds when the constructor is called.
C3_EnvAtConstruction ==
    ctor.outcome = "ok" => Resolved(ctor.obj[1]) = Expected(ctor.env)

\* C3 amended: the resolved credentials of a constructed client are, per
\* credential, the argument if supplied and otherwise the value the
\* environment variable held when the module was imported.
C3_EnvAtImport ==
    ctor.outcome = "ok"
        => /\ Resolved(ctor.obj[1]) = Expected(envAtImport)
           /\ ctor.obj[1]._auth = CarmdAuth(ctor.obj[1]._key, ctor.obj[1]._secret)

C3_Witness ==
    /\ ctor.outcome = "ok"
    /\ IsNone(ctor.key) /\ NonEmptyStr(ctor.secret)
    /\ ctor.env["CARMD_KEY"] # envAtImport["CARMD_KEY"]
    /\ ctor.env["CARMD_SECRET"] # ctor.secret
    /\ NonEmptyStr(ctor.env["CARMD_SECRET"])


AllNone(args) == \A i \in 1 .. Len(args) : IsNone(args[i])

\* C4: get_predicted_repair with vehicle_id, tag and fleet_id all unset ends
\* in TypeError having handed nothing to the HTTP layer and sent nothing;
\* the client is what it was when the call began and takes a later call.
C4_NoIdentifierRaises ==
    \A t \in Threads :
        (call[t].op = "get_predicted_repair" /\ AllNone(call[t].args))
            => /\ call[t].pc = "raised"
               /\ call[t].exc = "TypeError"
               /\ call[t].got = << >>
               /\ call[t].sent = << >>
               /\ call[t].resp = << >>
               /\ client = call[t].self
               /\ ENABLED Call_get_decode(t, Vin)

C4_Witness ==
    /\ call["t1"].op = "get_predicted_repair" /\ AllNone(call["t1"].args)
    /\ call["t1"].exc = "TypeError"
    /\ call["t2"].op = "get_predicted_repair" /\ call["t2"].pc = "returned"

\* The single parameter the claim expects: vehicle id over tag over fleet id.
PriorityParam(args) ==
    IF ~IsNone(args[1]) THEN "vehicleID" :> args[1]
    ELSE IF ~IsNone(args[2]) THEN "tag" :> args[2]
    ELSE "fleetID" :> args[3]

\* C5: with at least one of vehicle_id, tag, fleet_id supplied,
\* get_predicted_repair sends report/predicted with exactly one query
\* parameter, that of the highest-priority supplied identifier and its value.
C5_OneParameterByPriority ==
    \A t \in Threads :
        (call[t].op = "get_predicted_repair" /\ ~AllNone(call[t].args))
            => /\ call[t].pc \in {"http", "returned", "raised"}
               /\ Len(call[t].sent) = 1
               /\ call[t].sent[1].url = CMD_BASE_URL \o "report/predicted"
               /\ ~call[t].sent[1].params.none
               /\ Cardinality(DOMAIN call[t].sent[1].params.d) = 1
               /\ call[t].sent[1].params.d = PriorityParam(call[t].args)
               /\ call[t].got[1].params = call[t].sent[1].params

C5_Witness ==
    /\ call["t1"].op = "get_predicted_repair"
    /\ call["t1"].args = << PyInt(0), PyStr(<< >>), PyStr(<< "f" >>) >>
    /\ call["t1"].sent[1].params.d = ("vehicleID" :> PyInt(0))
    /\ call["t2"].op = "get_predicted_repair"
    /\ call["t2"].args = << PyNone, PyNone, PyStr(<< "f" >>) >>
    /\ call["t2"].sent # << >>

DigitValue(c) ==
    CASE c = "0" -> 0 [] c = "1" -> 1 [] c = "2" -> 2 [] c = "3" -> 3
      [] c = "4" -> 4 [] c = "5" -> 5 [] c = "6" -> 6 [] c = "7" -> 7
      [] c = "8" -> 8 [] c = "9" -> 9

RECURSIVE ParseNat(_)
ParseNat(chars) ==
    IF chars = << >> THEN 0
    ELSE 10 * ParseNat(SubSeq(chars, 1, Len(chars) - 1))
             + DigitValue(chars[Len(chars)])

\* chars is the decimal numeral of i: sign, digits, no leading zero.
IsNumeralOf(chars, i) ==
    LET digits == IF i < 0 THEN Tail(chars) ELSE chars
    IN /\ Len(digits) >= 1
       /\ (i < 0) => chars[1] = "-"
       /\ \A k \in 1 .. Len(digits) :
             digits[k] \in {"0", "1", "2", "3", "4", "5", "6", "7", "8", "9"}
       /\ Len(digits) > 1 => digits[1] # "0"
       /\ ParseNat(digits) = (IF i < 0 THEN 0 - i ELSE i)

\* The parameter sent for numeric argument a is a string: a itself when a
\* is a string, the numeral of a when a is an integer.
SentAsString(p, a) ==
    /\ IsStr(p)
    /\ IsStr(a) => p = a
    /\ IsInt(a) => IsNumeralOf(p.s, a.n)

\* An integer and the string that is its numeral.
SameNumber(a, b) == IsInt(a) /\ IsStr(b) /\ IsNumeralOf(b.s, a.n)

\* C6: get_models sends year=str(year) and make=make, get_maintenance sends
\* vin=vin and mileage=str(mileage), both as strings, so an integer and its
\* string form yield the same request.
C6_NumbersSentAsStrings ==
    /\ \A t \in Threads :
          call[t].op = "get_models"
              => /\ DOMAIN call[t].sent[1].params.d = {"year", "make"}
                 /\ SentAsString(call[t].sent[1].params.d["year"], call[t].args[1])
                 /\ call[t].sent[1].params.d["make"] = call[t].args[2]
    /\ \A t \in Threads :
          call[t].op = "get_maintenance"
              => /\ DOMAIN call[t].sent[1].params.d = {"vin", "mileage"}
                 /\ call[t].sent[1].params.d["vin"] = call[t].args[1]
                 /\ SentAsString(call[t].sent[1].params.d["mileage"], call[t].args[2])
    /\ \A t \in Threads, u \in Threads :
          ( /\ call[t].op = "get_models" /\ call[u].op = "get_models"
            /\ SameNumber(call[t].args[1], call[u].args[1])
            /\ call[t].args[2] = call[u].args[2] )
              => call[t].sent = call[u].sent
    /\ \A t \in Threads, u \in Threads :
          ( /\ call[t].op = "get_maintenance" /\ call[u].op = "get_maintenance"
            /\ SameNumber(call[t].args[2], call[u].args[2])
            /\ call[t].args[1] = call[u].args[1] )
              => call[t].sent = call[u].sent

C6_Witness ==
    /\ call["t1"].op = "get_models" /\ call["t1"].args[1] = PyInt(MaxInt)
    /\ call["t2"].op = "get_models" /\ IsStr(call["t2"].args[1])
    /\ SameNumber(call["t1"].args[1], call["t2"].args[1])
    /\ call["t1"].pc = "returned" /\ call["t2"].pc = "returned"
    /\ Len(call["t1"].sent[1].params.d["year"].s) = 2


AuthHeaders == {"authorization", "partner-token"}

\* C7: each application of CarmdAuth.__call__ leaves 'authorization' equal
\* to the configured key and 'partner-token' equal to the configured secret
\* and changes no other header and no other field of the request; from the
\* second application on the request does not change at all.
C7_AuthIdempotent ==
    [][ applied' # applied
          => /\ r'.headers["authorization"] = auth.key
             /\ r'.headers["partner-token"] = auth.secret
             /\ DOMAIN r'.headers = (DOMAIN r.headers) \cup AuthHeaders
             /\ \A h \in (DOMAIN r.headers) \ AuthHeaders :
                   r'.headers[h] = r.headers[h]
             /\ r'.method = r.method /\ r'.url = r.url /\ r'.params = r.params
             /\ auth' = auth
             /\ (applied >= 1 => r' = r) ]_vars

C7_Witness ==
    /\ applied >= 2
    /\ "user-agent" \in DOMAIN r.headers
    /\ r.headers["authorization"] = auth.key
    /\ r.headers["partner-token"] = auth.secret
    /\ auth.key # auth.secret

\* C8 as stated: every option the caller passes to get reaches the HTTP GET
\* under the same name with the same value, alongside url = base_url +
\* service and the given params.
C8_EveryOptionForwarded ==
    \A t \in Threads :
        (call[t].op = "get" /\ call[t].got # << >>)
            => /\ call[t].got[1].url = CMD_BASE_URL \o call[t].service
               /\ call[t].got[1].params = call[t].params
               /\ \A o \in OptNames :
                     call[t].kwargs[o] # << >>
                         => call[t].got[1].kwargs[o] = call[t].kwargs[o]

\* C8 amended: every option other than auth that the caller passes to get is
\* passed to the HTTP GET under the same name with the same value, alongside
\* url = base_url + service and the given params; the auth option is always
\* the client's own CarmdAuth object, whatever the caller passed for it.
C8_OptionsButAuthForwarded ==
    \A t \in Threads :
        (call[t].op = "get" /\ call[t].pc # "idle")
            => /\ call[t].got # << >>
               /\ call[t].got[1].url = CMD_BASE_URL \o call[t].service
               /\ call[t].got[1].params = call[t].params
               /\ \A o \in OptNames \ {"auth"} :
                     call[t].got[1].kwargs[o] = call[t].kwargs[o]
               /\ call[t].got[1].kwargs["auth"] = << call[t].self[1]._auth >>

C8_Witness ==
    /\ call["t1"].op = "get" /\ call["t1"].pc = "returned"
    /\ call["t1"].kwargs["timeout"] # << >>
    /\ call["t1"].kwargs["headers"] # << >>
    /\ call["t1"].kwargs["auth"] # << >>
    /\ ~call["t1"].params.none
    /\ call["t1"].got[1].kwargs["timeout"] = << PyInt(5) >>

\* C9: a call that returns has issued exactly one HTTP GET and returns the
\* very response the HTTP layer produced for it, whatever its status; a
\* response, once produced, is never turned into an exception.
C9_OneGetResponseReturned ==
    \A t \in Threads :
        /\ call[t].pc = "returned"
              => /\ Len(call[t].sent) = 1
                 /\ Len(call[t].got) = 1
                 /\ call[t].resp # << >>
                 /\ call[t].result = call[t].resp
                 /\ call[t].exc = ""
        /\ call[t].resp # << >> => call[t].pc = "returned"
        /\ Len(call[t].sent) <= 1

C9_Witness ==
    /\ call["t1"].pc = "returned" /\ call["t1"].op = "get_decode"
    /\ call["t1"].resp[1].status = 404
    /\ call["t1"].result[1].body = "not json"
    /\ call["t2"].pc = "returned" /\ call["t2"].op = "get"
    /\ call["t2"].resp[1].status = 200

\* The client's credentials are those its construction resolved, its auth
\* object holds them, and every request issued through it carries them.
CredentialsKept ==
    client # << >>
        => /\ ctor.outcome = "ok"
           /\ client = ctor.obj
           /\ client[1]._auth = CarmdAuth(client[1]._key, client[1]._secret)
           /\ \A t \in Threads :
                 call[t].pc # "idle"
                     => /\ call[t].self = client
                        /\ \A i \in 1 .. Len(call[t].sent) :
                              /\ call[t].sent[i].headers["authorization"]
                                    = client[1]._key
                              /\ call[t].sent[i].headers["partner-token"]
                                    = client[1]._secret

\* C10: after any interleaving of the operations on one client, successful
\* or failing, its key and secret are the pair resolved at construction (no
\* step changes them) and every request it issued carries 'authorization' =
\* that key and 'partner-token' = that secret.
C10_CredentialsImmutable ==
    /\ []CredentialsKept
    /\ [][client # << >> => client' = client]_vars

C10_Witness ==
    /\ client # << >>
    /\ IsNone(ctor.key) /\ NonEmptyStr(ctor.secret)
    /\ call["t1"].op = "get" /\ call["t1"].pc = "http"
    /\ call["t1"].kwargs["headers"] # << >>
    /\ call["t1"].sent[1].headers["authorization"] = PyStr(<< "e" >>)
    /\ call["t2"].op = "get_predicted_repair" /\ call["t2"].exc = "TypeError"


====
